---- MODULE Spec2Model ----
(***************************************************************************)
(* The refresh / cache / serve core of the Netatmo exporter                *)
(* (internal/collector/collector.go): NetatmoCollector.Collect, the        *)
(* RefreshData goroutine it spawns, collectData, sendMetric, convertTime   *)
(* and the sync.RWMutex guarding the cached snapshot.                      *)
(*                                                                         *)
(* Time is counted in whole seconds since Go's zero time.Time (year 1).    *)
(* A time.Duration saturates at MaxDuration; the Unix epoch and every      *)
(* reading of the clock lie more than MaxDuration after the zero time.     *)
(***************************************************************************)
EXTENDS Integers, Sequences, FiniteSets, TLC

VARIABLES
    RefreshInterval,      \* c.RefreshInterval (set by New, never written again)
    StaleThreshold,       \* c.StaleThreshold  (set by New, never written again)
    clock,                \* the value c.clock() returns
    lastRefresh,          \* c.lastRefresh
    lastRefreshError,     \* c.lastRefreshError: NoErr, or the id of the fetch that failed
    lastRefreshDuration,  \* c.lastRefreshDuration
    cacheTimestamp,       \* c.cacheTimestamp
    cachedData,           \* c.cachedData: [gen, devs], gen = 0 is the nil pointer
    cacheTimestampBy,     \* history: the refresh execution that wrote cacheTimestamp
    lockWriter,           \* c.cacheLock: the writer that called Lock (0 = none)
    readers,              \* c.cacheLock: the scrapes holding the read lock
    task,                 \* the RefreshData goroutines, by id
    scrape                \* the Collect calls, by scraper

vars == <<RefreshInterval, StaleThreshold, clock, lastRefresh, lastRefreshError,
          lastRefreshDuration, cacheTimestamp, cachedData, cacheTimestampBy,
          lockWriter, readers, task, scrape>>

----------------------------------------------------------------------------
(* Bounds of the model *)

\* the largest time.Duration (math.MaxInt64 nanoseconds, scaled down)
MaxDuration == 6
\* how many seconds the clock advances in a run
MaxClock == 1
\* how many RefreshData goroutines are spawned in a run
MaxRefresh == 2
\* how many scrapes (Collect calls) run concurrently
NumScrapers == 1
\* the largest refresh interval tried
MaxInterval == 1
\* the largest stale threshold tried
MaxThreshold == 1
\* how many optional fields an enumerated leaf has set (or all of them)
MaxPresent == 1
\* how many scrapes run concurrently where the locking alone is examined
NumLockScrapers == 2

----------------------------------------------------------------------------
(* time.Time and time.Duration *)

\* the zero time.Time
ZeroTime == 0
\* seconds from the zero time to 1970-01-01
UnixOffset == MaxDuration + 1
\* the first reading of the clock
StartTime == UnixOffset + MaxDuration + 1
\* the last reading of the clock
EndTime == StartTime + MaxClock

\* Time.Sub: the difference, saturated to the range of a Duration
TimeSub(t, u) ==
    IF t - u > MaxDuration THEN MaxDuration
    ELSE IF t - u < -MaxDuration THEN -MaxDuration
    ELSE t - u

\* Time.IsZero
IsZero(t) == t = ZeroTime

\* Time.Unix
Unix(t) == t - UnixOffset

\* time.Unix(sec, 0)
TimeUnix(sec) == sec + UnixOffset

\* the conversion without the test for the zero time
convertTimeNoZeroTest(t) == Unix(t)

\* convertTime
convertTime(t) == IF IsZero(t) THEN 0 ELSE Unix(t)

----------------------------------------------------------------------------
(* netatmo.Device, netatmo.DashboardData and the metrics of one leaf *)

\* A string is a sequence of pieces, so that "id-" + device.ID is a concatenation;
\* the empty string is <<>>.  A pointer field is <<>> (nil) or <<v>>.
NilPtr == <<>>
Ptr(v) == <<v>>

\* the optional sensor fields collectData tests, in the order it tests them,
\* each with the descriptor it is sent under
OptionalFields ==
    << [field |-> "Temperature",      desc |-> "tempDesc"],
       [field |-> "Humidity",         desc |-> "humidityDesc"],
       [field |-> "CO2",              desc |-> "cotwoDesc"],
       [field |-> "Noise",            desc |-> "noiseDesc"],
       [field |-> "Pressure",         desc |-> "pressureDesc"],
       [field |-> "WindStrength",     desc |-> "windStrengthDesc"],
       [field |-> "WindAngle",        desc |-> "windDirectionDesc"],
       [field |-> "Rain",             desc |-> "rainDesc"],
       [field |-> "BatteryPercent",   desc |-> "batteryDesc"],
       [field |-> "WifiStatus",       desc |-> "wifiDesc"],
       [field |-> "RFStatus",         desc |-> "rfDesc"],
       [field |-> "HealthIdx",        desc |-> "healthIndexDesc"],
       [field |-> "AbsolutePressure", desc |-> "absolutePressureDesc"] >>

FieldNames == {OptionalFields[i].field : i \in 1..Len(OptionalFields)}

\* label values prometheus.NewConstMetric rejects (not valid UTF-8)
InvalidLabelValues == {<<"\\xff">>}

\* prometheus.NewConstMetric returns an error
NewConstMetricFails(labelValues) ==
    \E i \in 1..Len(labelValues) : labelValues[i] \in InvalidLabelValues

\* a send that does not look at the error of prometheus.NewConstMetric
sendMetricUnchecked(ch, desc, value, labelValues) ==
    Append(ch, [desc |-> desc, value |-> value, labels |-> labelValues])

\* sendMetric: the channel after the call; a metric that cannot be built is dropped
sendMetric(ch, desc, value, labelValues) ==
    IF NewConstMetricFails(labelValues)
    THEN ch
    ELSE Append(ch, [desc |-> desc, value |-> value, labels |-> labelValues])

\* the module label without the fallback
moduleNameNoFallback(device) == device.ModuleName

\* collectData, lines 238-241: the module label
moduleNameOf(device) ==
    IF device.ModuleName = <<>> THEN <<"id-">> \o device.ID ELSE device.ModuleName

\* staleness with the bound itself counted as stale
isStaleAtBound(dataAge, threshold) == dataAge >= threshold

\* collectData, line 252: the data is stale
isStale(dataAge, threshold) == dataAge > threshold

\* a field counted as set only when it is not zero
isSetNonZero(p) == p # NilPtr /\ p[1] # 0

\* collectData, lines 259-306: the nil test of a pointer field
isSet(p) == p # NilPtr

\* collectData, lines 259-306: one metric for each optional field that is set
RECURSIVE sendOptional(_, _, _, _, _)
sendOptional(ch, device, moduleName, stationName, i) ==
    IF i > Len(OptionalFields) THEN ch
    ELSE LET f == OptionalFields[i]
             p == device.opt[f.field]
         IN  sendOptional(
                 IF isSet(p)
                 THEN sendMetric(ch, f.desc, p[1], <<moduleName, stationName>>)
                 ELSE ch,
                 device, moduleName, stationName, i + 1)

\* collectData, lines 307-309: the last_measure_utc metric
sendLastMeasure(ch, device, moduleName, stationName) ==
    IF device.LastMeasure # NilPtr
    THEN sendMetric(ch, "lastMeasureUtcDesc", device.LastMeasure[1],
                    <<moduleName, stationName>>)
    ELSE ch

\* collectData: the channel after the call made when the clock reads now
collectData(ch, device, stationName, now) ==
    LET moduleName == moduleNameOf(device)
    IN  IF device.LastMeasure = NilPtr THEN ch
        ELSE LET date == TimeUnix(device.LastMeasure[1])
                 dataAge == TimeSub(now, date)
             IN  IF isStale(dataAge, StaleThreshold) THEN ch
                 ELSE sendLastMeasure(
                          sendOptional(
                              sendMetric(ch, "updatedDesc", Unix(date),
                                         <<moduleName, stationName>>),
                              device, moduleName, stationName, 1),
                          device, moduleName, stationName)

\* Collect, lines 204-211: the calls of collectData in order, as
\* [device, stationName] pairs: each device, then each of its linked modules
RECURSIVE modulesOf(_, _, _)
modulesOf(mods, stationName, i) ==
    IF i > Len(mods) THEN <<>>
    ELSE <<[device |-> mods[i], stationName |-> stationName]>>
         \o modulesOf(mods, stationName, i + 1)

stationNameOf(dev) == dev.StationName

RECURSIVE leavesOf(_, _)
leavesOf(devs, i) ==
    IF i > Len(devs) THEN <<>>
    ELSE LET stationName == stationNameOf(devs[i])
         IN  <<[device |-> devs[i], stationName |-> stationName]>>
             \o modulesOf(devs[i].LinkedModules, stationName, 1)
             \o leavesOf(devs, i + 1)

----------------------------------------------------------------------------
(* The state of the collector, of its goroutines and of its callers *)

Refreshes == 1..MaxRefresh
Scrapers == 1..NumScrapers

\* the nil error
NoErr == 0

\* the nil *netatmo.DeviceCollection
NilData == [gen |-> 0, devs |-> <<>>]

NoFields == [f \in FieldNames |-> NilPtr]

Leaf(id, moduleName, stationName, lastMeasure, opt, modules) ==
    [ID |-> id, ModuleName |-> moduleName, StationName |-> stationName,
     LastMeasure |-> lastMeasure, opt |-> opt, LinkedModules |-> modules]

\* what ReadFunction returns when it returns no error: an empty collection, or a
\* station measured when the run starts
FetchSnapshots ==
    { <<>>,
      << Leaf(<<"d1">>, <<"Indoor">>, <<"Home">>, Ptr(Unix(StartTime)),
              NoFields, <<>>) >> }

\* a RefreshData goroutine that was not spawned
NoTask ==
    [pc |-> "none", now |-> ZeroTime, start |-> ZeroTime, devs |-> <<>>,
     err |-> NoErr, preTs |-> ZeroTime, preData |-> NilData, overlapped |-> FALSE]

\* a scraper that is not in Collect
IdleScrape ==
    [pc |-> "idle", now |-> ZeroTime, trigLast |-> ZeroTime, spawned |-> {},
     out |-> <<>>, pending |-> <<>>, todo |-> <<>>, walk |-> <<>>,
     tsBy |-> 0, dataGen |-> 0, startGen |-> 0]

\* New: every field of the refresh state has its zero value
InitCollector ==
    /\ clock = StartTime
    /\ lastRefresh = ZeroTime
    /\ lastRefreshError = NoErr
    /\ lastRefreshDuration = 0
    /\ cacheTimestamp = ZeroTime
    /\ cachedData = NilData
    /\ cacheTimestampBy = 0
    /\ lockWriter = 0
    /\ readers = {}
    /\ task = [r \in Refreshes |-> NoTask]
    /\ scrape = [s \in Scrapers |-> IdleScrape]

Init ==
    /\ RefreshInterval \in (1..MaxInterval) \cup {MaxDuration}
    /\ StaleThreshold \in {1}
    /\ InitCollector

\* a RefreshData goroutine that was spawned and has not returned
Alive(r) == task[r].pc \notin {"none", "done"}

\* the metrics a scrape has put on the channel so far
Emit(s, metrics, leaf) ==
    scrape[s].out \o [k \in 1..Len(metrics) |-> [leaf |-> leaf, m |-> metrics[k]]]

----------------------------------------------------------------------------
(* The clock *)

Tick ==
    /\ clock < EndTime
    /\ clock' = clock + 1
    /\ UNCHANGED <<RefreshInterval, StaleThreshold, lastRefresh, lastRefreshError,
                   lastRefreshDuration, cacheTimestamp, cachedData, cacheTimestampBy,
                   lockWriter, readers, task, scrape>>

----------------------------------------------------------------------------
(* Collect *)

\* the trigger with the comparison made strict
ShouldRefreshStrict(now, last, interval) == TimeSub(now, last) > interval

\* Collect, line 186
ShouldRefresh(now, last, interval) == TimeSub(now, last) >= interval

\* the up value with the stored error left out
UpValueIgnoringError(last, err) == IF IsZero(last) THEN 0 ELSE 1

\* Collect, lines 190-193
UpValue(last, err) == IF IsZero(last) \/ err # NoErr THEN 0 ELSE 1

\* Collect, lines 185-188: read the clock and lastRefresh, spawn RefreshData
Collect_Trigger(s) ==
    LET now == clock
        fire == ShouldRefresh(now, lastRefresh, RefreshInterval)
        id == Cardinality({r \in Refreshes : task[r].pc # "none"}) + 1
        others == {r \in Refreshes : Alive(r)}
    IN  /\ scrape[s].pc = "idle"
        /\ fire => id <= MaxRefresh
        /\ scrape' = [scrape EXCEPT ![s] =
                [IdleScrape EXCEPT !.pc = "up", !.now = now, !.trigLast = lastRefresh,
                                   !.spawned = IF fire THEN {id} ELSE {},
                                   !.startGen = cachedData.gen]]
        /\ task' = IF fire
                   THEN [r \in Refreshes |->
                           IF r = id
                           THEN [NoTask EXCEPT !.pc = "spawned", !.now = now,
                                               !.overlapped = others # {}]
                           ELSE IF r \in others
                           THEN [task[r] EXCEPT !.overlapped = TRUE]
                           ELSE task[r]]
                   ELSE task
        /\ UNCHANGED <<RefreshInterval, StaleThreshold, clock, lastRefresh,
                       lastRefreshError, lastRefreshDuration, cacheTimestamp,
                       cachedData, cacheTimestampBy, lockWriter, readers>>

\* Collect, lines 190-195: netatmo_up and netatmo_refresh_interval_seconds
Collect_Up(s) ==
    /\ scrape[s].pc = "up"
    /\ scrape' = [scrape EXCEPT
            ![s].out = Emit(s,
                sendMetric(
                    sendMetric(<<>>, "netatmoUpDesc",
                               UpValue(lastRefresh, lastRefreshError), <<>>),
                    "refreshIntervalDesc", RefreshInterval, <<>>), 0),
            ![s].pc = "ts"]
    /\ UNCHANGED <<RefreshInterval, StaleThreshold, clock, lastRefresh,
                   lastRefreshError, lastRefreshDuration, cacheTimestamp,
                   cachedData, cacheTimestampBy, lockWriter, readers, task>>

\* Collect, line 196: netatmo_last_refresh_time
Collect_Timestamp(s) ==
    /\ scrape[s].pc = "ts"
    /\ scrape' = [scrape EXCEPT
            ![s].out = Emit(s, sendMetric(<<>>, "refreshTimestampDesc",
                                          convertTime(lastRefresh), <<>>), 0),
            ![s].pc = "dur"]
    /\ UNCHANGED <<RefreshInterval, StaleThreshold, clock, lastRefresh,
                   lastRefreshError, lastRefreshDuration, cacheTimestamp,
                   cachedData, cacheTimestampBy, lockWriter, readers, task>>

\* Collect, line 197: netatmo_last_refresh_duration_seconds
Collect_Duration(s) ==
    /\ scrape[s].pc = "dur"
    /\ scrape' = [scrape EXCEPT
            ![s].out = Emit(s, sendMetric(<<>>, "refreshDurationDesc",
                                          lastRefreshDuration, <<>>), 0),
            ![s].pc = "rlock"]
    /\ UNCHANGED <<RefreshInterval, StaleThreshold, clock, lastRefresh,
                   lastRefreshError, lastRefreshDuration, cacheTimestamp,
                   cachedData, cacheTimestampBy, lockWriter, readers, task>>

\* readers kept out by a writer that holds the lock across its fetch
WriterPendingOrFetching ==
    lockWriter # 0 \/ \E r \in Refreshes : task[r].pc = "fetch"

\* RWMutex.RLock: a writer that has called Lock keeps new readers out
WriterPending == lockWriter # 0

\* Collect, line 199: RLock returns at once, or blocks until the writer's Unlock
Collect_RLock(s) ==
    /\ scrape[s].pc = "rlock"
    /\ IF WriterPending
       THEN /\ scrape' = [scrape EXCEPT ![s].pc = "rwait"]
            /\ UNCHANGED readers
       ELSE /\ scrape' = [scrape EXCEPT ![s].pc = "cache"]
            /\ readers' = readers \cup {s}
    /\ UNCHANGED <<RefreshInterval, StaleThreshold, clock, lastRefresh,
                   lastRefreshError, lastRefreshDuration, cacheTimestamp,
                   cachedData, cacheTimestampBy, lockWriter, task>>

\* Collect, line 202: netatmo_cache_updated_time
Collect_CacheTimestamp(s) ==
    /\ scrape[s].pc = "cache"
    /\ scrape' = [scrape EXCEPT
            ![s].out = Emit(s, sendMetric(<<>>, "cacheTimestampDesc",
                                          convertTime(cacheTimestamp), <<>>), 0),
            ![s].tsBy = cacheTimestampBy,
            ![s].pc = "data"]
    /\ UNCHANGED <<RefreshInterval, StaleThreshold, clock, lastRefresh,
                   lastRefreshError, lastRefreshDuration, cacheTimestamp,
                   cachedData, cacheTimestampBy, lockWriter, readers, task>>

\* Collect, lines 203-204: read cachedData and its devices
Collect_Devices(s) ==
    LET todo == IF cachedData = NilData THEN <<>> ELSE leavesOf(cachedData.devs, 1)
    IN  /\ scrape[s].pc = "data"
        /\ scrape' = [scrape EXCEPT
                ![s].todo = todo,
                ![s].dataGen = cachedData.gen,
                ![s].pc = IF todo = <<>> THEN "runlock" ELSE "leaf"]
        /\ UNCHANGED <<RefreshInterval, StaleThreshold, clock, lastRefresh,
                       lastRefreshError, lastRefreshDuration, cacheTimestamp,
                       cachedData, cacheTimestampBy, lockWriter, readers, task>>

\* where Collect goes on once the metrics of a leaf are sent
AfterLeaf(todo) == IF todo = <<>> THEN "runlock" ELSE "leaf"

\* Collect, lines 206 and 209: one call of collectData, up to its first send
Collect_Leaf(s) ==
    LET l == Head(scrape[s].todo)
        metrics == collectData(<<>>, l.device, l.stationName, clock)
        rest == Tail(scrape[s].todo)
    IN  /\ scrape[s].pc = "leaf"
        /\ scrape' = [scrape EXCEPT
                ![s].walk = Append(@, [device |-> l.device,
                                       stationName |-> l.stationName, at |-> clock]),
                ![s].pending = metrics,
                ![s].todo = rest,
                ![s].pc = IF metrics = <<>> THEN AfterLeaf(rest) ELSE "send"]
        /\ UNCHANGED <<RefreshInterval, StaleThreshold, clock, lastRefresh,
                       lastRefreshError, lastRefreshDuration, cacheTimestamp,
                       cachedData, cacheTimestampBy, lockWriter, readers, task>>

\* sendMetric, line 318: the consumer of the channel receives the metrics of the leaf
Collect_Send(s) ==
    /\ scrape[s].pc = "send"
    /\ scrape' = [scrape EXCEPT
            ![s].out = Emit(s, scrape[s].pending, Len(scrape[s].walk)),
            ![s].pending = <<>>,
            ![s].pc = AfterLeaf(scrape[s].todo)]
    /\ UNCHANGED <<RefreshInterval, StaleThreshold, clock, lastRefresh,
                   lastRefreshError, lastRefreshDuration, cacheTimestamp,
                   cachedData, cacheTimestampBy, lockWriter, readers, task>>

\* Collect, line 200: every metric is sent, the deferred RUnlock is to run
Collect_RUnlock(s) ==
    /\ scrape[s].pc = "runlock"
    /\ scrape' = [scrape EXCEPT ![s].pc = "done"]
    /\ readers' = readers \ {s}
    /\ UNCHANGED <<RefreshInterval, StaleThreshold, clock, lastRefresh,
                   lastRefreshError, lastRefreshDuration, cacheTimestamp,
                   cachedData, cacheTimestampBy, lockWriter, task>>

\* Collect, line 213: the return; the caller keeps nothing of the call
Collect_Return(s) ==
    /\ scrape[s].pc = "done"
    /\ scrape' = [scrape EXCEPT ![s] = IdleScrape]
    /\ UNCHANGED <<RefreshInterval, StaleThreshold, clock, lastRefresh,
                   lastRefreshError, lastRefreshDuration, cacheTimestamp,
                   cachedData, cacheTimestampBy, lockWriter, readers, task>>

\* the steps of a scrape that has started
CollectStep(s) ==
    \/ Collect_Up(s)
    \/ Collect_Timestamp(s)
    \/ Collect_Duration(s)
    \/ Collect_RLock(s)
    \/ Collect_CacheTimestamp(s)
    \/ Collect_Devices(s)
    \/ Collect_Leaf(s)
    \/ Collect_Send(s)
    \/ Collect_RUnlock(s)
    \/ Collect_Return(s)

----------------------------------------------------------------------------
(* RefreshData *)

\* an attempt that is not recorded
attemptTimeKept(r) == lastRefresh

\* RefreshData, line 218: the attempt time recorded is the argument now
attemptTime(r) == task[r].now

\* RefreshData, lines 217-222: record the attempt, start the stopwatch
RefreshData_Start(r) ==
    /\ task[r].pc = "spawned"
    /\ lastRefresh' = attemptTime(r)
    /\ task' = [task EXCEPT ![r].pc = "fetch", ![r].start = clock,
                            ![r].preTs = cacheTimestamp, ![r].preData = cachedData]
    /\ UNCHANGED <<RefreshInterval, StaleThreshold, clock, lastRefreshError,
                   lastRefreshDuration, cacheTimestamp, cachedData, cacheTimestampBy,
                   lockWriter, readers, scrape>>

\* RefreshData, lines 224-226: ReadFunction returns a collection and no error
RefreshData_FetchOk(r) ==
    /\ task[r].pc = "fetch"
    /\ \E devices \in FetchSnapshots :
          task' = [task EXCEPT ![r].pc = "lock", ![r].devs = devices]
    /\ lastRefreshError' = NoErr
    /\ UNCHANGED <<RefreshInterval, StaleThreshold, clock, lastRefresh,
                   lastRefreshDuration, cacheTimestamp, cachedData, cacheTimestampBy,
                   lockWriter, readers, scrape>>

\* RefreshData, lines 224-229: ReadFunction returns an error
RefreshData_FetchErr(r) ==
    /\ task[r].pc = "fetch"
    /\ task' = [task EXCEPT ![r].pc = "dur", ![r].err = r]
    /\ lastRefreshError' = r
    /\ UNCHANGED <<RefreshInterval, StaleThreshold, clock, lastRefresh,
                   lastRefreshDuration, cacheTimestamp, cachedData, cacheTimestampBy,
                   lockWriter, readers, scrape>>

\* RefreshData, line 231: Lock announces the writer, which keeps new readers out
RefreshData_Lock(r) ==
    /\ task[r].pc = "lock"
    /\ lockWriter = 0
    /\ lockWriter' = r
    /\ task' = [task EXCEPT ![r].pc = "lockWait"]
    /\ UNCHANGED <<RefreshInterval, StaleThreshold, clock, lastRefresh,
                   lastRefreshError, lastRefreshDuration, cacheTimestamp, cachedData,
                   cacheTimestampBy, readers, scrape>>

\* a writer that does not wait for the readers
ReadersIgnored == TRUE

\* a writer that also waits for the readers blocked behind it
ReadersGoneAndNoneBlocked ==
    readers = {} /\ \A s \in DOMAIN scrape : scrape[s].pc # "rwait"

\* RWMutex.Lock: the writer waits until the readers have left
ReadersGone == readers = {}

\* RefreshData, line 231: Lock returns
RefreshData_Locked(r) ==
    /\ task[r].pc = "lockWait"
    /\ ReadersGone
    /\ task' = [task EXCEPT ![r].pc = "writeTs"]
    /\ UNCHANGED <<RefreshInterval, StaleThreshold, clock, lastRefresh,
                   lastRefreshError, lastRefreshDuration, cacheTimestamp, cachedData,
                   cacheTimestampBy, lockWriter, readers, scrape>>

\* a cache timestamp that is cleared when the collection stored is empty
newCacheTimestampIfData(r) == IF task[r].devs = <<>> THEN ZeroTime ELSE task[r].now

\* a cache timestamp read from the clock when the snapshot is stored
newCacheTimestampFromClock(r) == clock

\* RefreshData, line 233: the cache timestamp stored is the argument now
newCacheTimestamp(r) == task[r].now

\* RefreshData, line 233
RefreshData_WriteTimestamp(r) ==
    /\ task[r].pc = "writeTs"
    /\ cacheTimestamp' = newCacheTimestamp(r)
    /\ cacheTimestampBy' = r
    /\ task' = [task EXCEPT ![r].pc = "writeData"]
    /\ UNCHANGED <<RefreshInterval, StaleThreshold, clock, lastRefresh,
                   lastRefreshError, lastRefreshDuration, cachedData,
                   lockWriter, readers, scrape>>

\* a snapshot that is fetched and not stored
newCachedDataKept(r) == cachedData

\* RefreshData, line 234: the snapshot stored is the one ReadFunction returned
newCachedData(r) == [gen |-> r, devs |-> task[r].devs]

\* RefreshData, line 234
RefreshData_WriteData(r) ==
    /\ task[r].pc = "writeData"
    /\ cachedData' = newCachedData(r)
    /\ task' = [task EXCEPT ![r].pc = "unlock"]
    /\ UNCHANGED <<RefreshInterval, StaleThreshold, clock, lastRefresh,
                   lastRefreshError, lastRefreshDuration, cacheTimestamp,
                   cacheTimestampBy, lockWriter, readers, scrape>>

\* RefreshData, line 232: the deferred Unlock lets the blocked readers in
RefreshData_Unlock(r) ==
    /\ task[r].pc = "unlock"
    /\ lockWriter' = 0
    /\ readers' = readers \cup {s \in DOMAIN scrape : scrape[s].pc = "rwait"}
    /\ scrape' = [s \in DOMAIN scrape |->
                    IF scrape[s].pc = "rwait"
                    THEN [scrape[s] EXCEPT !.pc = "cache"]
                    ELSE scrape[s]]
    /\ task' = [task EXCEPT ![r].pc = "dur"]
    /\ UNCHANGED <<RefreshInterval, StaleThreshold, clock, lastRefresh,
                   lastRefreshError, lastRefreshDuration, cacheTimestamp, cachedData,
                   cacheTimestampBy>>

\* RefreshData, lines 220-222: the deferred stopwatch, and the return
RefreshData_Duration(r) ==
    /\ task[r].pc = "dur"
    /\ lastRefreshDuration' = TimeSub(clock, task[r].start)
    /\ task' = [task EXCEPT ![r].pc = "done"]
    /\ UNCHANGED <<RefreshInterval, StaleThreshold, clock, lastRefresh,
                   lastRefreshError, cacheTimestamp, cachedData, cacheTimestampBy,
                   lockWriter, readers, scrape>>

\* the steps of RefreshData that do not wait for ReadFunction
RefreshStep(r) ==
    \/ RefreshData_Start(r)
    \/ RefreshData_Lock(r)
    \/ RefreshData_Locked(r)
    \/ RefreshData_WriteTimestamp(r)
    \/ RefreshData_WriteData(r)
    \/ RefreshData_Unlock(r)
    \/ RefreshData_Duration(r)

FetchReturn(r) ==
    \/ RefreshData_FetchOk(r)
    \/ RefreshData_FetchErr(r)

----------------------------------------------------------------------------
(* The collector under concurrent scrapes *)

Next ==
    \/ Tick
    \/ \E s \in Scrapers : Collect_Trigger(s)
    \/ \E s \in Scrapers : CollectStep(s)
    \/ \E r \in Refreshes : RefreshStep(r)
    \/ \E r \in Refreshes : FetchReturn(r)

Spec == Init /\ [][Next]_vars

\* The Go scheduler runs every goroutine that can run, and the consumer of the
\* channel keeps receiving; nothing makes ReadFunction return, the clock advance
\* or a scrape arrive.
LiveSpec ==
    /\ Spec
    /\ \A s \in Scrapers : WF_vars(CollectStep(s))
    /\ \A r \in Refreshes : WF_vars(RefreshStep(r))

----------------------------------------------------------------------------
(* One scraper walking a cached snapshot: the inputs of collectData *)

\* the optional fields of a leaf: at most MaxPresent of them set, each to 0 or
\* to 21, or all of them set to the same value
FieldChoices ==
    UNION { { [f \in FieldNames |-> IF f \in P THEN Ptr(v[f]) ELSE NilPtr] :
                v \in [P -> {0, 21}] } :
            P \in {Q \in SUBSET FieldNames : Cardinality(Q) <= MaxPresent} }
    \cup { [f \in FieldNames |-> Ptr(v)] : v \in {0, 21} }

\* DashboardData.LastMeasure: nil, or up to MaxThreshold + 1 seconds before the
\* first reading of the clock, or one second after it
LastMeasures ==
    {NilPtr} \cup {Ptr(Unix(StartTime) + d) : d \in (-(MaxThreshold + 1))..1}

\* two stations, the first with one linked module: every mix of measure times
StaleSnapshots ==
    { << Leaf(<<"d1">>, <<"Indoor">>, <<"Home">>, lm[1], NoFields,
              << Leaf(<<"m1">>, <<"Outdoor">>, <<>>, lm[2], NoFields, <<>>) >>),
         Leaf(<<"d2">>, <<"Cellar">>, <<"Home">>, lm[3], NoFields, <<>>) >> :
        lm \in [1..3 -> LastMeasures] }

\* one station measured at the first reading of the clock: every choice of fields
FieldSnapshots ==
    { << Leaf(<<"d1">>, <<"X">>, <<"X">>, Ptr(Unix(StartTime)), opt, <<>>) >> :
        opt \in FieldChoices }

\* one station with one linked module: every mix of empty and set names
NameSnapshots ==
    { << Leaf(<<"d1">>, n[1], n[2], Ptr(Unix(StartTime)), NoFields,
              << Leaf(<<"m1">>, n[3], n[4], Ptr(Unix(StartTime)),
                      NoFields, <<>>) >>) >> :
        n \in [1..4 -> {<<>>, <<"X">>, <<"Y">>}] }

EmitSnapshots == StaleSnapshots \cup FieldSnapshots \cup NameSnapshots

\* the collector after its first RefreshData, spawned at the first reading of the
\* clock, has stored a snapshot, with a refresh interval that does not elapse again
EmitInit ==
    /\ RefreshInterval = MaxDuration
    /\ StaleThreshold \in 0..MaxThreshold
    /\ clock = StartTime
    /\ lastRefresh = StartTime
    /\ lastRefreshError = NoErr
    /\ lastRefreshDuration = 0
    /\ cacheTimestamp = StartTime
    /\ \E devices \in EmitSnapshots :
          /\ cachedData = [gen |-> 1, devs |-> devices]
          /\ task = [r \in Refreshes |->
                       IF r = 1
                       THEN [NoTask EXCEPT !.pc = "done", !.now = StartTime,
                                           !.start = StartTime, !.devs = devices]
                       ELSE NoTask]
    /\ cacheTimestampBy = 1
    /\ lockWriter = 0
    /\ readers = {}
    /\ scrape = [s \in Scrapers |-> IdleScrape]

EmitNext ==
    \/ Tick
    \/ Collect_Trigger(1)
    \/ CollectStep(1)

EmitSpec == EmitInit /\ [][EmitNext]_vars

----------------------------------------------------------------------------
(* One scraper walking a snapshot some of whose names cannot be label values *)

\* names, one of them not valid UTF-8
DropNames == {<<"X">>} \cup InvalidLabelValues

\* DashboardData.LastMeasure: nil, too old for every threshold tried, or new
DropMeasures ==
    {NilPtr, Ptr(Unix(StartTime) - (MaxThreshold + 1)), Ptr(Unix(StartTime))}

\* a leaf with its temperature set
WithTemperature == [NoFields EXCEPT !["Temperature"] = Ptr(21)]

\* two stations, the first with one linked module: every mix of names and of
\* measure times
DropSnapshots ==
    { << Leaf(<<"d1">>, n[1], n[4], lm[1], WithTemperature,
              << Leaf(<<"m1">>, n[2], <<>>, lm[2], WithTemperature, <<>>) >>),
         Leaf(<<"d2">>, n[3], n[5], lm[3], WithTemperature, <<>>) >> :
        n \in [1..5 -> DropNames], lm \in [1..3 -> DropMeasures] }

\* the time of the first RefreshData when a second one followed it
EarlierTime == StartTime - MaxDuration

\* the collector after its first RefreshData has stored a snapshot: either that
\* refresh was spawned at the first reading of the clock, or it was spawned one
\* refresh interval earlier and the RefreshData spawned at the first reading of
\* the clock has failed
DropInit ==
    /\ RefreshInterval = MaxDuration
    /\ StaleThreshold \in 0..MaxThreshold
    /\ clock = StartTime
    /\ lastRefresh = StartTime
    /\ lastRefreshDuration = 0
    /\ \E devices \in DropSnapshots, failed \in BOOLEAN :
          LET first == IF failed THEN EarlierTime ELSE StartTime
          IN  /\ lastRefreshError = IF failed THEN 2 ELSE NoErr
              /\ cacheTimestamp = first
              /\ cachedData = [gen |-> 1, devs |-> devices]
              /\ task = [r \in Refreshes |->
                           IF r = 1
                           THEN [NoTask EXCEPT !.pc = "done", !.now = first,
                                               !.start = first, !.devs = devices]
                           ELSE IF r = 2 /\ failed
                           THEN [NoTask EXCEPT !.pc = "done", !.now = StartTime,
                                               !.start = StartTime, !.err = 2,
                                               !.preTs = first,
                                               !.preData =
                                                   [gen |-> 1, devs |-> devices]]
                           ELSE NoTask]
    /\ cacheTimestampBy = 1
    /\ lockWriter = 0
    /\ readers = {}
    /\ scrape = [s \in Scrapers |-> IdleScrape]

DropSpec == DropInit /\ [][EmitNext]_vars

----------------------------------------------------------------------------
(* Concurrent scrapes against one more RefreshData: the lock *)

LockScrapers == 1..NumLockScrapers

\* the collector after its first RefreshData, spawned at the first reading of the
\* clock, has stored a station, with the shortest refresh interval tried
LockInit ==
    /\ RefreshInterval = 1
    /\ StaleThreshold = 1
    /\ clock = StartTime
    /\ lastRefresh = StartTime
    /\ lastRefreshError = NoErr
    /\ lastRefreshDuration = 0
    /\ cacheTimestamp = StartTime
    /\ \E devices \in FetchSnapshots \ {<<>>} :
          /\ cachedData = [gen |-> 1, devs |-> devices]
          /\ task = [r \in Refreshes |->
                       IF r = 1
                       THEN [NoTask EXCEPT !.pc = "done", !.now = StartTime,
                                           !.start = StartTime, !.devs = devices]
                       ELSE NoTask]
    /\ cacheTimestampBy = 1
    /\ lockWriter = 0
    /\ readers = {}
    /\ scrape = [s \in LockScrapers |-> IdleScrape]

LockNext ==
    \/ Tick
    \/ \E s \in LockScrapers : Collect_Trigger(s)
    \/ \E s \in LockScrapers : CollectStep(s)
    \/ \E r \in Refreshes : RefreshStep(r)
    \/ \E r \in Refreshes : FetchReturn(r)

\* fair as LiveSpec is: to every step of Collect and of RefreshData, and to no
\* return of ReadFunction
LockSpec ==
    /\ LockInit /\ [][LockNext]_vars
    /\ \A s \in LockScrapers : WF_vars(CollectStep(s))
    /\ \A r \in Refreshes : WF_vars(RefreshStep(r))

----------------------------------------------------------------------------
(* Properties of the refresh trigger and of the refresh executor *)

\* the scrapes that are past the trigger of Collect
Started == {s \in Scrapers : scrape[s].pc # "idle"}

\* no two RefreshData goroutines have been alive at the same time so far
NoOverlap == \A r \in Refreshes : ~task[r].overlapped

\* RefreshData r takes its last step
Finishes(r) == task[r].pc = "dur" /\ task'[r].pc = "done"

\* ReadFunction has returned to RefreshData r without an error
Succeeded(r) ==
    /\ task[r].pc \in {"lock", "lockWait", "writeTs", "writeData", "unlock",
                       "dur", "done"}
    /\ task[r].err = NoErr

\* C1: a scrape that read the clock as now and lastRefresh as last has spawned a
\* RefreshData exactly when now - last >= RefreshInterval, and then a single one,
\* called with now; a scrape that read the zero time as last has spawned one.
C1_TriggerIffIntervalElapsed ==
    \A s \in Started :
        LET now == scrape[s].now
            last == scrape[s].trigLast
            spawned == scrape[s].spawned
        IN  /\ Cardinality(spawned) <= 1
            /\ spawned # {} <=> now - last >= RefreshInterval
            /\ last = ZeroTime => spawned # {}
            /\ \A r \in spawned : task[r].pc # "none" /\ task[r].now = now

\* a scrape made exactly RefreshInterval > 0 after the recorded attempt has spawned
\* a refresh
C1_Witness ==
    \E s \in Started :
        /\ RefreshInterval > 0
        /\ scrape[s].trigLast # ZeroTime
        /\ scrape[s].now - scrape[s].trigLast = RefreshInterval
        /\ scrape[s].spawned # {}

\* C2: every scrape that has started returns, whether or not ReadFunction ever
\* returns to the RefreshData goroutines (LiveSpec is fair to every step of Collect
\* and of RefreshData, and to no return of ReadFunction).
C2_ScrapeAlwaysReturns ==
    \A s \in Scrapers : (scrape[s].pc # "idle") ~> (scrape[s].pc = "idle")

\* a scrape has sent everything and released the lock while the RefreshData it
\* spawned itself is still waiting for ReadFunction
C2_Witness ==
    \E s \in Scrapers :
        /\ scrape[s].pc = "done"
        /\ \E r \in scrape[s].spawned : task[r].pc = "fetch"

\* C3 as claimed: when a RefreshData whose fetch failed returns, the cache is what
\* it was when that RefreshData started, the stored error is its error, and a
\* scrape would send netatmo_up = 0.
C3_FailedRefreshAsClaimed ==
    [][\A r \in Refreshes :
          (Finishes(r) /\ task[r].err # NoErr) =>
              /\ cachedData' = task[r].preData
              /\ cacheTimestamp' = task[r].preTs
              /\ lastRefreshError' = task[r].err
              /\ UpValue(lastRefresh', lastRefreshError') = 0]_vars

\* C3, amended: the same, for a RefreshData that no other RefreshData goroutine
\* was alive together with.
C3_FailedRefreshKeepsCache ==
    [][\A r \in Refreshes :
          (Finishes(r) /\ task[r].err # NoErr /\ ~task[r].overlapped) =>
              /\ cachedData' = task[r].preData
              /\ cacheTimestamp' = task[r].preTs
              /\ lastRefreshError' = task[r].err
              /\ UpValue(lastRefresh', lastRefreshError') = 0]_vars

\* a RefreshData that ran alone and failed has returned, and the snapshot of an
\* earlier refresh is still cached
C3_Witness ==
    \E r \in Refreshes :
        /\ task[r].pc = "done"
        /\ task[r].err # NoErr
        /\ ~task[r].overlapped
        /\ lastRefreshError = task[r].err
        /\ cachedData # NilData
        /\ cachedData = task[r].preData

\* C4 as claimed: when a RefreshData whose fetch succeeded returns, no error is
\* stored, the cached snapshot is the one it fetched, cacheTimestamp = lastRefresh,
\* and a scrape would send netatmo_up = 1.
C4_SuccessfulRefreshAsClaimed ==
    [][\A r \in Refreshes :
          (Finishes(r) /\ task[r].err = NoErr) =>
              /\ lastRefreshError' = NoErr
              /\ cachedData' = [gen |-> r, devs |-> task[r].devs]
              /\ cacheTimestamp' = lastRefresh'
              /\ UpValue(lastRefresh', lastRefreshError') = 1]_vars

\* C4, amended: the same, for a RefreshData that no other RefreshData goroutine
\* was alive together with.
C4_SuccessfulRefreshStoresSnapshot ==
    [][\A r \in Refreshes :
          (Finishes(r) /\ task[r].err = NoErr /\ ~task[r].overlapped) =>
              /\ lastRefreshError' = NoErr
              /\ cachedData' = [gen |-> r, devs |-> task[r].devs]
              /\ cacheTimestamp' = lastRefresh'
              /\ cacheTimestamp' = task[r].now
              /\ UpValue(lastRefresh', lastRefreshError') = 1]_vars

\* a RefreshData that ran alone and succeeded has returned after an earlier one
\* had failed: its snapshot is cached and the error is cleared
C4_Witness ==
    \E r \in Refreshes :
        /\ task[r].pc = "done"
        /\ task[r].err = NoErr
        /\ ~task[r].overlapped
        /\ cachedData = [gen |-> r, devs |-> task[r].devs]
        /\ \E q \in Refreshes : task[q].pc = "done" /\ task[q].err # NoErr
        /\ lastRefreshError = NoErr

\* C5 as claimed: cacheTimestamp <= lastRefresh in every reachable state.
C5_CacheNotAfterAttemptAsClaimed == cacheTimestamp <= lastRefresh

\* C5, amended: cacheTimestamp <= lastRefresh as long as no two RefreshData
\* goroutines have been alive at the same time.
C5_CacheNotAfterAttempt == NoOverlap => cacheTimestamp <= lastRefresh

\* the cache was written by one attempt and a later attempt has been recorded
C5_Witness ==
    /\ NoOverlap
    /\ cacheTimestamp # ZeroTime
    /\ cacheTimestamp < lastRefresh

\* C6 as claimed: a scrape sends netatmo_up = 1 exactly when, as it reads the
\* refresh state, some refresh has succeeded and no error is stored for the most
\* recent attempt.
C6_UpIffEverSucceeded ==
    [][\A s \in Scrapers :
          (scrape[s].pc = "up" /\ scrape'[s].pc = "ts") =>
              (scrape'[s].out[1].m.value = 1
                  <=> ((\E r \in Refreshes : Succeeded(r))
                       /\ lastRefreshError = NoErr))]_vars

\* C7: the cache timestamp a scrape sent and the snapshot it walks were written by
\* the same RefreshData (or neither was ever written), the timestamp sent is that
\* refresh's, and the leaves walked and still to walk are those of that one fetched
\* collection.
C7_TimestampAndSnapshotOfOneRefresh ==
    \A s \in Scrapers :
        scrape[s].pc \in {"leaf", "send", "runlock", "done"} =>
            LET g == scrape[s].dataGen
                walked == [i \in 1..Len(scrape[s].walk) |->
                              [device |-> scrape[s].walk[i].device,
                               stationName |-> scrape[s].walk[i].stationName]]
            IN  /\ scrape[s].tsBy = g
                /\ scrape[s].out[5].m.desc = "cacheTimestampDesc"
                /\ scrape[s].out[5].m.value =
                      IF g = 0 THEN 0 ELSE Unix(task[g].now)
                /\ walked \o scrape[s].todo =
                      IF g = 0 THEN <<>> ELSE leavesOf(task[g].devs, 1)

\* a scrape is sending the metrics of a stored snapshot while another RefreshData
\* has called Lock and waits for the scrape to replace that snapshot
C7_Witness ==
    \E s \in Scrapers :
        /\ scrape[s].pc = "send"
        /\ scrape[s].dataGen # 0
        /\ lockWriter \notin {0, scrape[s].dataGen}
        /\ task[lockWriter].pc = "lockWait"

----------------------------------------------------------------------------
(* Properties of the metric emitter *)

\* the scrapes that have sent every metric
Emitted == {s \in Scrapers : scrape[s].pc \in {"runlock", "done"}}

\* the collection a scrape read from the cache
SnapshotOf(s) ==
    IF scrape[s].dataGen = 0 THEN <<>> ELSE task[scrape[s].dataGen].devs

\* the number of linked modules of the first d devices of a collection
RECURSIVE ModulesBefore(_, _)
ModulesBefore(devs, d) ==
    IF d = 0 THEN 0 ELSE Len(devs[d].LinkedModules) + ModulesBefore(devs, d - 1)

\* the place of device d of a collection in the walk, and the number of leaves
PlaceOf(devs, d) == d + ModulesBefore(devs, d - 1)
LeafCount(devs) == Len(devs) + ModulesBefore(devs, Len(devs))

\* a scrape walked every leaf of its collection: each device, then its modules
WalkedAll(s) ==
    LET devs == SnapshotOf(s)
        walk == scrape[s].walk
    IN  /\ Len(walk) = LeafCount(devs)
        /\ \A d \in 1..Len(devs) :
              /\ walk[PlaceOf(devs, d)].device = devs[d]
              /\ \A j \in 1..Len(devs[d].LinkedModules) :
                    walk[PlaceOf(devs, d) + j].device = devs[d].LinkedModules[j]

\* the metrics a scrape sent for leaf i of its walk
MetricsOf(s, i) ==
    LET sent == SelectSeq(scrape[s].out, LAMBDA e : e.leaf = i)
    IN  [k \in 1..Len(sent) |-> sent[k].m]

\* leaf i of the walk had a measure no older than StaleThreshold when collectData
\* read the clock for it
Fresh(s, i) ==
    LET w == scrape[s].walk[i]
    IN  /\ w.device.LastMeasure # NilPtr
        /\ w.at - (w.device.LastMeasure[1] + UnixOffset) <= StaleThreshold

\* the optional fields a leaf has set
PresentFields(device) == {f \in FieldNames : device.opt[f] # NilPtr}

\* the descriptor an optional field is sent under
DescOf(f) ==
    OptionalFields[CHOOSE i \in 1..Len(OptionalFields) :
                      OptionalFields[i].field = f].desc

\* C8: a scrape walks every leaf of its snapshot, and sends metrics for a leaf
\* exactly when the leaf has a lastMeasure and its age, when collectData reads the
\* clock for it, is at most StaleThreshold.
C8_LeafEmittedIffFresh ==
    \A s \in Emitted :
        /\ WalkedAll(s)
        /\ \A i \in 1..Len(scrape[s].walk) :
              MetricsOf(s, i) # <<>> <=> Fresh(s, i)

\* a leaf that is too old was skipped and a later leaf, exactly StaleThreshold
\* old, was sent
C8_Witness ==
    \E s \in Emitted :
        \E i, j \in 1..Len(scrape[s].walk) :
            /\ i < j
            /\ scrape[s].walk[i].device.LastMeasure # NilPtr
            /\ ~Fresh(s, i)
            /\ MetricsOf(s, i) = <<>>
            /\ scrape[s].walk[j].device.LastMeasure # NilPtr
            /\ scrape[s].walk[j].at
                  - (scrape[s].walk[j].device.LastMeasure[1] + UnixOffset)
                  = StaleThreshold
            /\ MetricsOf(s, j) # <<>>

\* the metric among ms sent under descriptor desc
WithDesc(ms, desc) == SelectSeq(ms, LAMBDA m : m.desc = desc)

\* C9 as claimed: for a fresh leaf a scrape sends the "updated" metric and one
\* metric for each optional field that is set, and nothing else.
C9_OnlyUpdatedAndPresentFields ==
    \A s \in Emitted :
        \A i \in 1..Len(scrape[s].walk) :
            Fresh(s, i) =>
                LET device == scrape[s].walk[i].device
                    ms == MetricsOf(s, i)
                IN  /\ {ms[k].desc : k \in 1..Len(ms)} =
                          {"updatedDesc"}
                          \cup {DescOf(f) : f \in PresentFields(device)}
                    /\ Len(ms) = 1 + Cardinality(PresentFields(device))

\* C9, amended: for a fresh leaf a scrape sends the "updated" metric, one metric
\* for each optional field that is set, carrying the field's value (zero
\* included), and the last_measure_utc metric, and nothing else.
C9_UpdatedPresentFieldsAndLastMeasure ==
    \A s \in Emitted :
        \A i \in 1..Len(scrape[s].walk) :
            Fresh(s, i) =>
                LET device == scrape[s].walk[i].device
                    ms == MetricsOf(s, i)
                IN  /\ {ms[k].desc : k \in 1..Len(ms)} =
                          {"updatedDesc", "lastMeasureUtcDesc"}
                          \cup {DescOf(f) : f \in PresentFields(device)}
                    /\ Len(ms) = 2 + Cardinality(PresentFields(device))
                    /\ ms[1].desc = "updatedDesc"
                    /\ ms[1].value = device.LastMeasure[1]
                    /\ WithDesc(ms, "lastMeasureUtcDesc")[1].value
                          = device.LastMeasure[1]
                    /\ \A f \in PresentFields(device) :
                          WithDesc(ms, DescOf(f))[1].value = device.opt[f][1]

\* a fresh leaf with one field set to zero and every other field absent was sent
\* as three metrics, the field's with the value 0
C9_Witness ==
    \E s \in Emitted :
        \E i \in 1..Len(scrape[s].walk) :
            LET device == scrape[s].walk[i].device
            IN  /\ Fresh(s, i)
                /\ \E f \in FieldNames :
                      /\ PresentFields(device) = {f}
                      /\ device.opt[f] = Ptr(0)
                      /\ WithDesc(MetricsOf(s, i), DescOf(f)) # <<>>
                /\ Len(MetricsOf(s, i)) = 3

\* the name collectData resolves for a leaf
ResolvedName(device) ==
    IF device.ModuleName = <<>> THEN <<"id-">> \o device.ID ELSE device.ModuleName

\* every metric a scrape sent for leaf i carries these two labels
Labelled(s, i, moduleLabel, stationLabel) ==
    \A k \in 1..Len(MetricsOf(s, i)) :
        MetricsOf(s, i)[k].labels = <<moduleLabel, stationLabel>>

\* C10 as claimed: the module label of a leaf is its name, or "id-" and its
\* identifier when the name is empty; the station label of a main device is that
\* resolved name of its own, and a linked module carries its parent's.
C10_StationIsResolvedName ==
    \A s \in Emitted :
        LET devs == SnapshotOf(s)
        IN  \A d \in 1..Len(devs) :
              /\ Labelled(s, PlaceOf(devs, d),
                          ResolvedName(devs[d]), ResolvedName(devs[d]))
              /\ \A j \in 1..Len(devs[d].LinkedModules) :
                    Labelled(s, PlaceOf(devs, d) + j,
                             ResolvedName(devs[d].LinkedModules[j]),
                             ResolvedName(devs[d]))

\* C10, amended: the module label of a leaf is its name, or "id-" and its
\* identifier when the name is empty; the station label of a main device is its
\* StationName field as it is (no fallback), and a linked module carries the
\* StationName of its parent device, not its own.
C10_StationIsStationNameField ==
    \A s \in Emitted :
        LET devs == SnapshotOf(s)
        IN  /\ WalkedAll(s)
            /\ \A d \in 1..Len(devs) :
                  /\ Labelled(s, PlaceOf(devs, d),
                              ResolvedName(devs[d]), devs[d].StationName)
                  /\ \A j \in 1..Len(devs[d].LinkedModules) :
                        Labelled(s, PlaceOf(devs, d) + j,
                                 ResolvedName(devs[d].LinkedModules[j]),
                                 devs[d].StationName)

\* a linked module with an empty name and a station name of its own was sent with
\* the "id-" label and the other station name of its parent
C10_Witness ==
    \E s \in Emitted :
        LET devs == SnapshotOf(s)
        IN  \E d \in 1..Len(devs) :
              \E j \in 1..Len(devs[d].LinkedModules) :
                LET module == devs[d].LinkedModules[j]
                    ms == MetricsOf(s, PlaceOf(devs, d) + j)
                IN  /\ module.ModuleName = <<>>
                    /\ module.StationName # <<>>
                    /\ module.StationName # devs[d].StationName
                    /\ devs[d].StationName # <<>>
                    /\ ms # <<>>
                    /\ ms[1].labels = <<<<"id-">> \o module.ID, devs[d].StationName>>

----------------------------------------------------------------------------
(* Properties of a scrape made before any snapshot is stored *)

\* the descriptors of the self-health metrics, in the order Collect sends them
SelfHealthDescs ==
    <<"netatmoUpDesc", "refreshIntervalDesc", "refreshTimestampDesc",
      "refreshDurationDesc", "cacheTimestampDesc">>

\* the descriptors of the metrics a scrape has sent so far
DescsOf(s) == [k \in 1..Len(scrape[s].out) |-> scrape[s].out[k].m.desc]

\* ReadFunction has returned without an error to no RefreshData so far
NoneSucceeded == \A r \in Refreshes : ~Succeeded(r)

\* ReadFunction has returned an error to some RefreshData
SomeFailed == \E r \in Refreshes : task[r].err # NoErr

\* as long as no refresh has succeeded the cache is empty, and a scrape that has
\* sent everything has sent the five self-health metrics alone, with
\* netatmo_cache_updated_time = 0
C11_EmptyCacheOnlySelfHealth ==
    /\ NoneSucceeded => cachedData = NilData /\ cacheTimestamp = ZeroTime
    /\ \A s \in Emitted :
          (NoneSucceeded \/ scrape[s].dataGen = 0) =>
              /\ scrape[s].dataGen = 0
              /\ DescsOf(s) = SelfHealthDescs
              /\ \A k \in 1..Len(scrape[s].out) : scrape[s].out[k].leaf = 0
              /\ scrape[s].out[5].m.value = 0

\* a scrape that reads the zero time as the last attempt sends
\* netatmo_last_refresh_time = 0
C11_NoAttemptZeroTime(s) ==
    (scrape[s].pc = "ts" /\ scrape'[s].pc = "dur" /\ lastRefresh = ZeroTime) =>
        /\ scrape'[s].out[3].m.desc = "refreshTimestampDesc"
        /\ scrape'[s].out[3].m.value = 0

\* a scrape that reads the refresh state once a fetch has failed and none has
\* succeeded sends netatmo_up = 0
C11_FailedFirstFetchDown(s) ==
    (scrape[s].pc = "up" /\ scrape'[s].pc = "ts" /\ SomeFailed /\ NoneSucceeded) =>
        /\ scrape'[s].out[1].m.desc = "netatmoUpDesc"
        /\ scrape'[s].out[1].m.value = 0

----------------------------------------------------------------------------
(* Properties of a scrape that meets errors *)

\* the metrics collectData sends for a leaf when every one of them can be built
Wanted(s, i) ==
    LET device == scrape[s].walk[i].device
        labels == <<ResolvedName(device), scrape[s].walk[i].stationName>>
        fields == SelectSeq(OptionalFields,
                            LAMBDA f : device.opt[f.field] # NilPtr)
    IN  IF ~Fresh(s, i) THEN <<>>
        ELSE <<[desc |-> "updatedDesc", value |-> device.LastMeasure[1],
                labels |-> labels]>>
             \o [k \in 1..Len(fields) |->
                    [desc |-> fields[k].desc,
                     value |-> device.opt[fields[k].field][1],
                     labels |-> labels]]
             \o <<[desc |-> "lastMeasureUtcDesc",
                   value |-> device.LastMeasure[1], labels |-> labels]>>

\* a metric prometheus.NewConstMetric builds
CanBuild(m) == \A k \in 1..Len(m.labels) : m.labels[k] \notin InvalidLabelValues

\* C12: a scrape that has sent everything has sent the five self-health metrics
\* first, whatever the last fetch returned, has walked every leaf, and has sent for
\* each leaf, in the order of the walk, the metrics of that leaf that can be built,
\* in their order: a metric that cannot be built takes no other metric with it.
C12_BadMetricDroppedAlone ==
    \A s \in Emitted :
        LET out == scrape[s].out
        IN  /\ Len(out) >= 5
            /\ [k \in 1..5 |-> out[k].m.desc] = SelfHealthDescs
            /\ WalkedAll(s)
            /\ \A k \in 1..Len(out) :
                  /\ out[k].leaf = 0 <=> k <= 5
                  /\ k > 1 => out[k - 1].leaf <= out[k].leaf
            /\ out[1].m.value = UpValue(lastRefresh, lastRefreshError)
            /\ \A i \in 1..Len(scrape[s].walk) :
                  MetricsOf(s, i) = SelectSeq(Wanted(s, i), CanBuild)

\* after a failed fetch a scrape has sent netatmo_up = 0, has dropped the metrics
\* of its first leaf, whose name is no label value, has skipped the second leaf,
\* which has no measure, and has sent the three metrics of the third leaf
C12_Witness ==
    \E s \in Emitted :
        /\ lastRefreshError # NoErr
        /\ scrape[s].out[1].m.value = 0
        /\ Len(scrape[s].walk) = 3
        /\ Wanted(s, 1) # <<>> /\ MetricsOf(s, 1) = <<>>
        /\ scrape[s].walk[2].device.LastMeasure = NilPtr
        /\ Len(MetricsOf(s, 3)) = 3
        /\ Len(scrape[s].out) = 8

----------------------------------------------------------------------------
(* Properties of the locking *)

\* C13 as claimed: no scrape holds the read lock while it walks the devices or
\* sends their metrics; the lock is held only for the reads of cacheTimestamp and
\* of cachedData.
C13_NoSendUnderReadLock ==
    \A s \in readers : scrape[s].pc \notin {"leaf", "send"}

----------------------------------------------------------------------------
(* Properties of the attempt time *)

\* the fetch of RefreshData r is in flight, or has failed
InFlightOrFailed(r) == task[r].pc = "fetch" \/ task[r].err # NoErr

\* a scrape that read the clock now would spawn a RefreshData
WouldSpawn == ShouldRefresh(clock, lastRefresh, RefreshInterval)

\* C14 as claimed: while the fetch of an attempt made at T is in flight, and after
\* it has failed, a scrape at a time t with t - T < RefreshInterval spawns no
\* RefreshData.
C14_AttemptBlocksRetryAsClaimed ==
    \A r \in Refreshes :
        (InFlightOrFailed(r) /\ clock - task[r].now < RefreshInterval)
            => ~WouldSpawn

\* C14, amended: the same for an attempt that no other RefreshData goroutine was
\* alive together with; while the fetch of such an attempt is in flight the
\* recorded attempt time is its now.
C14_AttemptBlocksRetry ==
    \A r \in Refreshes :
        ~task[r].overlapped =>
            /\ task[r].pc = "fetch" => lastRefresh = task[r].now
            /\ (InFlightOrFailed(r) /\ clock - task[r].now < RefreshInterval)
                  => /\ ~WouldSpawn
                     /\ \A s \in Scrapers : scrape[s].pc = "idle" =>
                           ~ENABLED (Collect_Trigger(s)
                                     /\ scrape'[s].spawned # {})

\* a scrape made less than RefreshInterval after an attempt that ran alone and
\* failed has spawned nothing, and the failed attempt is the first one ever
C14_Witness ==
    \E s \in Started :
        /\ task[1].pc = "done" /\ task[1].err # NoErr /\ ~task[1].overlapped
        /\ task[2].pc = "none"
        /\ scrape[s].trigLast = task[1].now
        /\ scrape[s].now - task[1].now < RefreshInterval
        /\ scrape[s].now > task[1].now
        /\ scrape[s].spawned = {}

----------------------------------------------------------------------------
(* Properties of the reads of the scalar refresh fields *)

\* the scrapes that have read lastRefresh for the trigger, lastRefresh and
\* lastRefreshError for netatmo_up, and lastRefresh for netatmo_last_refresh_time
ReadScalars == {s \in Scrapers : scrape[s].pc \notin {"idle", "up", "ts"}}

\* C15 as claimed: the values a scrape sends and the attempt time its trigger used
\* are those of one state of the refresh fields: the netatmo_last_refresh_time
\* sent is the attempt time the trigger read, and netatmo_up = 1 is sent only if
\* that attempt time is not the zero time.
C15_ScalarsReadUntorn ==
    \A s \in ReadScalars :
        /\ scrape[s].out[3].m.value = convertTime(scrape[s].trigLast)
        /\ scrape[s].out[1].m.value = 1 => ~IsZero(scrape[s].trigLast)

----------------------------------------------------------------------------
(* Properties of the visibility of a stored snapshot *)

\* RefreshData r has stored its snapshot
Stored(r) == task[r].pc \in {"unlock", "dur", "done"} /\ task[r].err = NoErr

\* a scrape that started when the store held the snapshot of a RefreshData, and
\* has sent everything while the store still holds it (no write since it started),
\* has sent that refresh's cache timestamp and the metrics of every leaf of that
\* refresh's collection
C16_ScrapeServesStoredSnapshot ==
    \A s \in Emitted :
        LET g == scrape[s].startGen
        IN  (g # 0 /\ cachedData.gen = g) =>
                /\ Stored(g)
                /\ scrape[s].dataGen = g
                /\ scrape[s].out[5].m.desc = "cacheTimestampDesc"
                /\ scrape[s].out[5].m.value = Unix(task[g].now)
                /\ WalkedAll(s)
                /\ Len(scrape[s].walk) = LeafCount(task[g].devs)
                /\ \A i \in 1..Len(scrape[s].walk) :
                      MetricsOf(s, i) = SelectSeq(Wanted(s, i), CanBuild)

\* C16: once ReadFunction has returned a collection without an error to a
\* RefreshData, that RefreshData eventually stores it (LiveSpec: every goroutine
\* that can run does, the consumer of the channel keeps receiving); and a scrape
\* that starts after the write, with no other write until it has sent everything,
\* sends the stored snapshot's cache timestamp and metrics.
C16_StoredSnapshotBecomesVisible ==
    /\ \A r \in Refreshes : (task[r].pc = "lock") ~> (cachedData.gen = r)
    /\ []C16_ScrapeServesStoredSnapshot

\* the second RefreshData, spawned later than the first, has replaced the snapshot
\* of the first by a collection with a device, and a scrape that started after
\* the write and spawned nothing has sent the new timestamp and the metrics of
\* the device
C16_Witness ==
    \E s \in Emitted :
        /\ scrape[s].startGen = 2 /\ cachedData.gen = 2
        /\ task[1].pc = "done" /\ task[1].err = NoErr
        /\ task[2].now > task[1].now
        /\ scrape[s].spawned = {}
        /\ scrape[s].out[5].m.value = Unix(task[2].now)
        /\ Len(scrape[s].walk) = 1
        /\ Len(MetricsOf(s, 1)) = 2

----------------------------------------------------------------------------
(* Properties of the writers of the refresh state *)

\* the fields of the refresh state
RefreshState ==
    <<lastRefresh, lastRefreshError, lastRefreshDuration, cacheTimestamp, cachedData>>

\* the two fields the lock guards
SnapshotStore == <<cacheTimestamp, cachedData>>

\* a step of Collect
ScrapeStep == \E s \in Scrapers : Collect_Trigger(s) \/ CollectStep(s)

\* a step of a RefreshData goroutine that has been spawned
RefreshDataStep == \E r \in Refreshes : Alive(r) /\ (RefreshStep(r) \/ FetchReturn(r))

\* RefreshData r holds the write lock: Lock has returned to it, no scrape holds
\* the read lock, and it has not unlocked
HoldsWriteLock(r) ==
    /\ lockWriter = r
    /\ task[r].pc \in {"writeTs", "writeData", "unlock"}
    /\ readers = {}

\* C17: a step of Collect (collectData and sendMetric included) leaves the five
\* fields of the refresh state unchanged; every change of one of them is a step
\* of a RefreshData; and cacheTimestamp and cachedData change only in a step of
\* the RefreshData that holds the write lock.
C17_OnlyRefreshDataWrites ==
    [][/\ ScrapeStep => UNCHANGED RefreshState
       /\ RefreshState' # RefreshState => RefreshDataStep
       /\ SnapshotStore' # SnapshotStore =>
             \E r \in Refreshes :
                 /\ HoldsWriteLock(r)
                 /\ RefreshData_WriteTimestamp(r) \/ RefreshData_WriteData(r)]_vars

\* a RefreshData holding the write lock has replaced the cache timestamp of an
\* earlier refresh, and a scrape is blocked in RLock
C17_Witness ==
    \E r \in Refreshes :
        /\ HoldsWriteLock(r)
        /\ task[r].pc = "writeData"
        /\ task[r].preTs # ZeroTime
        /\ cacheTimestamp = task[r].now
        /\ cacheTimestamp # task[r].preTs
        /\ \E s \in Scrapers : scrape[s].pc = "rwait"

----------------------------------------------------------------------------
(* Properties of the order of the cache timestamps *)

\* C18 as claimed: no step makes cacheTimestamp smaller, whatever the order in
\* which overlapping RefreshData goroutines finish.
C18_CacheTimestampMonotoneAsClaimed ==
    [][cacheTimestamp' >= cacheTimestamp]_vars

\* C18, amended: cacheTimestamp changes only in the write of a RefreshData, and
\* the write of a RefreshData that was spawned after the one whose timestamp it
\* replaces (as every write is when no two RefreshData goroutines overlap) does
\* not make cacheTimestamp smaller.
C18_CacheTimestampMonotoneInSpawnOrder ==
    [][/\ cacheTimestamp' # cacheTimestamp =>
             \E r \in Refreshes : RefreshData_WriteTimestamp(r)
       /\ \A r \in Refreshes :
             (RefreshData_WriteTimestamp(r)
                 /\ (cacheTimestampBy < r \/ ~task[r].overlapped))
                => cacheTimestamp' >= cacheTimestamp]_vars

\* the second RefreshData, which ran alone, has replaced the cache timestamp of
\* the first by a later one
C18_Witness ==
    /\ task[2].pc = "writeData"
    /\ ~task[2].overlapped
    /\ cacheTimestampBy = 2
    /\ task[2].preTs # ZeroTime
    /\ cacheTimestamp > task[2].preTs

----------------------------------------------------------------------------
(* Properties of the progress of the lock *)

\* where a scrape holds the read lock, and where a RefreshData has called Lock
ReaderPcs == {"cache", "data", "leaf", "send", "runlock"}
WriterPcs == {"lockWait", "writeTs", "writeData", "unlock"}

\* the lock is held only where the code holds it
C19_LockHeldOnlyInside ==
    /\ readers = {s \in DOMAIN scrape : scrape[s].pc \in ReaderPcs}
    /\ lockWriter # 0 => task[lockWriter].pc \in WriterPcs
    /\ \A r \in Refreshes : task[r].pc \in WriterPcs => lockWriter = r
    /\ \A r \in Refreshes :
          task[r].pc \in {"writeTs", "writeData", "unlock"} => readers = {}

\* C19: under LockSpec (every goroutine that can run does, the consumer of the
\* channel keeps receiving) every RLock and every Lock that is called returns,
\* every read lock and the write lock are released again, and the lock is held
\* only where the code holds it: by a scrape from RLock to its return, by a
\* RefreshData from Lock over its two assignments to Unlock.
C19_EveryLockRequestGranted ==
    /\ []C19_LockHeldOnlyInside
    /\ \A s \in LockScrapers :
          /\ (scrape[s].pc \in {"rlock", "rwait"}) ~> (s \in readers)
          /\ (s \in readers) ~> (scrape[s].pc = "idle")
    /\ \A r \in Refreshes :
          /\ (task[r].pc \in {"lock", "lockWait"}) ~> HoldsWriteLock(r)
          /\ (lockWriter = r) ~> (task[r].pc = "done")

\* one scrape holds the read lock and is sending, the RefreshData has called Lock
\* and waits for it, and the other scrape is blocked in RLock behind the writer
C19_Witness ==
    \E s, t \in DOMAIN scrape :
        /\ s # t
        /\ s \in readers /\ scrape[s].pc = "send"
        /\ lockWriter # 0 /\ task[lockWriter].pc = "lockWait"
        /\ scrape[t].pc = "rwait"

====
